---- MODULE Spec2Model ----
(***************************************************************************)
(* Model of the outbound payload enrichment hook of the Rollbar demo       *)
(* application (app/src/rollbar.py) and of the events the scenarios        *)
(* report through it.                                                      *)
(*                                                                         *)
(* Python values are modelled as tagged records so that values of          *)
(* different Python types can be compared:                                 *)
(*   str   [t |-> "str",  s |-> "..."]     int  [t |-> "int", n |-> 1]      *)
(*   bool  [t |-> "bool", b |-> TRUE]      None [t |-> "null"]              *)
(*   list  [t |-> "list", l |-> <<...>>]   dict [t |-> "map", m |-> f]      *)
(*   msgspec.Struct instance  [t |-> "struct", cls |-> "...", f |-> f]      *)
(* A dict is a function from its keys (strings) to values.  Objects live   *)
(* in a heap indexed by reference, so that "the same object" and "a copy"  *)
(* are different things.                                                   *)
(***************************************************************************)
EXTENDS Integers, Sequences, FiniteSets, TLC

\* Bounds of the model
MaxEvents == 2   \* events reported by the scenarios in one run
MaxCalls == 3    \* invocations of the payload handler in one run

----------------------------------------------------------------------------
\* Python values

Str(s) == [t |-> "str", s |-> s]
Num(n) == [t |-> "int", n |-> n]
Bool(b) == [t |-> "bool", b |-> b]
Null == [t |-> "null"]
List(l) == [t |-> "list", l |-> l]
Map(f) == [t |-> "map", m |-> f]
Struct(cls, f) == [t |-> "struct", cls |-> cls, f |-> f]
EmptyMap == Map(<<>>)

\* Marker used only while building an input payload: the key is not set.
Absent == [t |-> "absent"]

IsMap(v) == v.t = "map"
\* k in d
HasKey(d, k) == k \in DOMAIN d.m
\* d.get(k, default)
Get(d, k, default) == IF k \in DOMAIN d.m THEN d.m[k] ELSE default
\* d[k] = w
Put(d, k, w) == Map([j \in (DOMAIN d.m) \cup {k} |-> IF j = k THEN w ELSE d.m[j]])
\* {**a, **b}: the keys of both, b's value where both have the key
Merge(a, b) == Map([j \in (DOMAIN a.m) \cup (DOMAIN b.m) |-> IF j \in DOMAIN b.m THEN b.m[j] ELSE a.m[j]])
\* d with the keys ks removed (used to compare the rest of a dict)
Without(d, ks) == Map([j \in (DOMAIN d.m) \ ks |-> d.m[j]])

----------------------------------------------------------------------------
\* app/src/rollbar.py

\* uuid4().hex: the n-th identifier drawn in this process.  uuid4 draws 122
\* random bits; two draws are modelled as never colliding.
UuidHex(n) == Str("uuid4_" \o ToString(n))

CustomMetadata(foo, bar) == Struct("CustomMetadata", [k \in {"foo", "bar"} |-> IF k = "foo" THEN foo ELSE bar])

_get_person == Map([k \in {"id", "tenant"} |-> IF k = "id" THEN Str("1234") ELSE Str("tenant_name")])

FeatureFlags == List(<<Str("feature_1"), Str("feature_2")>>)

_get_custom_data_fixed(n) == Map([k \in {"trace_id", "feature_flags"} |-> IF k = "trace_id" THEN UuidHex(1) ELSE FeatureFlags])

_get_custom_data(n) == Map([k \in {"trace_id", "feature_flags"} |-> IF k = "trace_id" THEN UuidHex(n) ELSE FeatureFlags])

\* msgspec.to_builtins: structs become dicts of their converted fields,
\* dicts and lists are converted element by element, scalars are kept.
RECURSIVE to_builtins(_)
to_builtins(v) ==
    CASE v.t = "struct" -> Map([k \in DOMAIN v.f |-> to_builtins(v.f[k])])
      [] v.t = "map" -> Map([k \in DOMAIN v.m |-> to_builtins(v.m[k])])
      [] v.t = "list" -> List([i \in DOMAIN v.l |-> to_builtins(v.l[i])])
      [] OTHER -> v

\* An exception propagating out of an expression
Exc(e) == [t |-> "exc", e |-> e]
IsExc(v) == v.t = "exc"

\* v.get(k, default) on any value: only a dict has .get
DictGet(v, k, default) ==
    CASE IsExc(v) -> v
      [] IsMap(v) -> Get(v, k, default)
      [] OTHER -> Exc("AttributeError")

\* payload["data"].get("body", {}).get("trace", {}).get("exception", {})
GetException(data) == DictGet(DictGet(DictGet(data, "body", EmptyMap), "trace", EmptyMap), "exception", EmptyMap)

\* bool(v): empty containers, None, False, 0 and "" are falsy
Truthy(v) ==
    CASE v.t = "map" -> DOMAIN v.m # {}
      [] v.t = "list" -> Len(v.l) > 0
      [] v.t = "str" -> v.s # ""
      [] v.t = "int" -> v.n # 0
      [] v.t = "bool" -> v.b
      [] v.t = "null" -> FALSE
      [] OTHER -> TRUE

ClassName_subscript(exception) == IF HasKey(exception, "class") THEN exception.m["class"] ELSE Exc("KeyError")

\* exception.get("class", "")
ClassName(exception) == DictGet(exception, "class", Str(""))

\* exception.get("message", "")
Message(exception) == DictGet(exception, "message", Str(""))

PrintLine(line, v) == [line |-> line, v |-> v]

\* Lines 73-79: the exception raised there, if any ("" when none), and the
\* lines printed
Diagnostics(data) ==
    LET exception == GetException(data) IN
    IF IsExc(exception) THEN [raise |-> exception.e, lines |-> << >>]
    ELSE IF ~Truthy(exception) THEN [raise |-> "", lines |-> << >>]
    ELSE LET l1 == << PrintLine("exception=", exception) >> IN
         IF IsExc(ClassName(exception)) THEN [raise |-> ClassName(exception).e, lines |-> l1]
         ELSE IF IsExc(Message(exception)) THEN [raise |-> Message(exception).e, lines |-> l1]
         ELSE [raise |-> "",
               lines |-> l1 \o << PrintLine("Exception class: ", ClassName(exception)),
                                  PrintLine("Exception message: ", Message(exception)) >>]

Vetoed_below_error(data) == data.m["level"] \notin {Str("error"), Str("critical")}

\* payload["data"]["level"] != "error"
Vetoed(data) == data.m["level"] # Str("error")

SetPerson_keep_caller(data) == Put(data, "person", Merge(_get_person, Get(data, "person", EmptyMap)))

\* payload["data"]["person"] = _get_person()
SetPerson(data) == Put(data, "person", _get_person)

\* A deep merge of two values: lists are concatenated, dicts merged key by
\* key, anything else is replaced by b
DeepValue(a, b) ==
    CASE a.t = "list" /\ b.t = "list" -> List(a.l \o b.l)
      [] a.t = "map" /\ b.t = "map" -> Merge(a, b)
      [] OTHER -> b

SetCustom_deep_merge(data, n) ==
    Put(data, "custom",
        Map([k \in DOMAIN _get_custom_data(n).m \cup DOMAIN Get(data, "custom", EmptyMap).m |->
            IF ~HasKey(Get(data, "custom", EmptyMap), k) THEN _get_custom_data(n).m[k]
            ELSE IF ~HasKey(_get_custom_data(n), k) THEN Get(data, "custom", EmptyMap).m[k]
            ELSE DeepValue(_get_custom_data(n).m[k], Get(data, "custom", EmptyMap).m[k])]))

SetCustom_refresh_trace(data, n) ==
    Put(data, "custom", Put(Merge(_get_custom_data(n), Get(data, "custom", EmptyMap)), "trace_id", UuidHex(n)))

SetCustom_defaults_win(data, n) == Put(data, "custom", Merge(Get(data, "custom", EmptyMap), _get_custom_data(n)))

\* payload["data"]["custom"] = {**_get_custom_data(), **payload["data"].get("custom", {})}
SetCustom(data, n) == Put(data, "custom", Merge(_get_custom_data(n), Get(data, "custom", EmptyMap)))

FooKey ==
    Map([k \in {"bar_key", "baz_key", "deep"} |->
        CASE k = "bar_key" -> Str("bar_value")
          [] k = "baz_key" -> List(<<Num(1), Num(2), Num(3)>>)
          [] k = "deep" -> Map("nested" :> Map("structure" :> Bool(TRUE)))])

SetFooKey_setdefault(data) == IF HasKey(data, "foo_key") THEN data ELSE Put(data, "foo_key", FooKey)

\* payload["data"]["foo_key"] = {...}
SetFooKey(data) == Put(data, "foo_key", FooKey)

\* payload["data"]["empty_value"] = None
SetEmptyValue(data) == Put(data, "empty_value", Null)

TheModel == CustomMetadata(Str("foo_value"), Map([k \in {"key1", "key2"} |-> IF k = "key1" THEN Num(10) ELSE Num(20)]))

SetBaseModelCustom_raw(data) == Put(data, "base_model_custom", Map("the_model" :> TheModel))

\* payload["data"]["base_model_custom"] = msgspec.to_builtins({"the_model": CustomMetadata(...)})
SetBaseModelCustom(data) == Put(data, "base_model_custom", to_builtins(Map("the_model" :> TheModel)))

SetFramework_append(data) == Put(data, "framework", Str(Get(data, "framework", Str("")).s \o "oreore_framework 1.0"))

\* payload["data"]["framework"] = "oreore_framework 1.0"
SetFramework(data) == Put(data, "framework", Str("oreore_framework 1.0"))

\* Lines 83-109 in order, on payload["data"]
Enrich(data, n) == SetFramework(SetBaseModelCustom(SetEmptyValue(SetFooKey(SetCustom(SetPerson(data), n)))))

RetFalse == [kind |-> "false"]
RetPayload(r) == [kind |-> "payload", ref |-> r]
Raised(exc) == [kind |-> "raise", exc |-> exc]

\* The outcome of one call: the heap after it, the value returned (or the
\* exception raised) and the lines printed
Outcome(h, ret, out) == [heap |-> h, ret |-> ret, out |-> out]

\* Lines 69-71 taken: nothing is written, False is returned
Veto_after_person(h, r) ==
    Outcome([h EXCEPT ![r] = Put(h[r], "data", SetPerson(h[r].m["data"]))], RetFalse,
            << PrintLine("Not an error, ignoring", Null) >>)

Veto(h, r) == Outcome(h, RetFalse, << PrintLine("Not an error, ignoring", Null) >>)

\* Lines 83-111: payload["data"] of the object passed in is updated key by
\* key and that object is returned
EnrichInPlace_copy(h, r, n, lines) ==
    Outcome((0 :> Put(h[r], "data", Enrich(h[r].m["data"], n))) @@ h, RetPayload(0), lines)

EnrichInPlace_data_only(h, r, n, lines) ==
    Outcome([h EXCEPT ![r] = Map("data" :> Enrich(Without(h[r].m["data"], {"context"}), n))], RetPayload(r), lines)

EnrichInPlace(h, r, n, lines) ==
    Outcome([h EXCEPT ![r] = Put(h[r], "data", Enrich(h[r].m["data"], n))], RetPayload(r), lines)

MissingKey_as_false(h, r) == Outcome(h, RetFalse, << PrintLine("Not an error, ignoring", Null) >>)

\* Line 69, payload["data"]["level"]: a subscript with a missing key raises
\* KeyError and the call ends there
MissingKey(h, r) == Outcome(h, Raised("KeyError"), << >>)

\* _payload_handler(payload) where payload is the object r of heap h and n
\* numbers the uuid4 draw of this call.
_payload_handler(h, r, n) ==
    IF ~HasKey(h[r], "data") THEN MissingKey(h, r)
    ELSE IF ~HasKey(h[r].m["data"], "level") THEN MissingKey(h, r)
    ELSE IF Vetoed(h[r].m["data"]) THEN Veto(h, r)
    ELSE LET diag == Diagnostics(h[r].m["data"]) IN
         IF diag.raise # "" THEN Outcome(h, Raised(diag.raise), diag.lines)
         ELSE EnrichInPlace(h, r, n, diag.lines)

----------------------------------------------------------------------------
\* The events the scenarios report (app/src/scenarios)

Levels == {"debug", "info", "warning", "error", "critical"}

ExceptionShapes ==
    { EmptyMap,
      Map("class" :> Str("ZeroDivisionError")),
      Map("message" :> Str("division by zero")),
      Map([k \in {"class", "message"} |-> IF k = "class" THEN Str("ZeroDivisionError") ELSE Str("division by zero")]),
      Map("description" :> Str("no class, no message")) }

BodyShapes ==
    { Absent, EmptyMap,
      Map("message" :> Map("body" :> Str("User action failed"))),
      Map("trace" :> EmptyMap) }
    \cup { Map("trace" :> Map("exception" :> e)) : e \in ExceptionShapes }

CustomShapes ==
    { Absent, EmptyMap,
      Map("payment_id" :> Str("pay_abc123")),
      Map("trace_id" :> Str("caller_trace")),
      Map("feature_flags" :> List(<<Str("caller_flag")>>)),
      Map("feature_flags" :> Map("feature_1" :> Bool(FALSE))),
      Map([k \in {"trace_id", "feature_flags", "payment_id"} |->
          CASE k = "trace_id" -> Str("caller_trace")
            [] k = "feature_flags" -> List(<<Str("feature_2"), Str("caller_flag")>>)
            [] k = "payment_id" -> Str("pay_abc123")]) }

\* payload_data of PersonTrackingScenario
CallerPerson ==
    Map([k \in {"id", "username", "email", "subscription"} |->
        CASE k = "id" -> Str("user_123")
          [] k = "username" -> Str("alice_smith")
          [] k = "email" -> Str("alice@example.com")
          [] k = "subscription" -> Str("premium")])

\* Values a caller may already hold at the keys the handler writes
StaleFields ==
    Map([k \in {"foo_key", "empty_value", "base_model_custom", "framework"} |->
        CASE k = "foo_key" -> Str("caller_foo")
          [] k = "empty_value" -> Num(5)
          [] k = "base_model_custom" -> Map("the_model" :> Str("caller_model"))
          [] k = "framework" -> Str("flask 3.0")])

ExtraShapes ==
    { EmptyMap,
      Map("person" :> CallerPerson),
      StaleFields,
      Map("context" :> Str("checkout#payment")),
      Merge(Merge(StaleFields, Map("person" :> CallerPerson)), Map("context" :> Str("checkout#payment"))) }

Optional(k, v) == IF v = Absent THEN EmptyMap ELSE Map(k :> v)

\* The payload the Reporting Client builds for one reported event
BuildData(level, body, custom, extra) ==
    Merge(Merge(Merge(Optional("level", level), Optional("body", body)), Optional("custom", custom)), extra)

BuildPayload(data) ==
    Merge(Map("access_token" :> Str("token")), Optional("data", data))

\* Error-level events in every combination of body, custom and extra keys
ErrorPayloads ==
    { BuildPayload(BuildData(Str("error"), body, custom, extra)) :
        body \in BodyShapes, custom \in CustomShapes, extra \in ExtraShapes }

\* Events of the other levels, and events without a level, with every body
\* and with none or all of the caller's custom and extra keys
OtherPayloads ==
    { BuildPayload(BuildData(level, body, custom, extra)) :
        level \in {Str(l) : l \in Levels \ {"error"}} \cup {Absent},
        body \in BodyShapes,
        custom \in {c \in CustomShapes : c = Absent \/ Cardinality(DOMAIN c.m) = 3},
        extra \in {e \in ExtraShapes : Cardinality(DOMAIN e.m) \in {0, 6}} }

Payloads == ErrorPayloads \cup OtherPayloads \cup { BuildPayload(Absent) }

----------------------------------------------------------------------------
\* State

VARIABLES
    heap,     \* reference -> payload object; only the current event's payload is live
    cur,      \* reference of the current event's payload, 0 before the first event
    last,     \* the last handler call: argument, payload before it, result, output
    ncalls,   \* handler invocations so far
    issued,   \* uuid4 values drawn so far
    traces,   \* per enriching call: the trace_id of the incoming custom (if any) and the one written
    sent,     \* levels of the payloads the handler passed on for transmission
    failed    \* handler invocations that raised

\* Handler invocations running concurrently, each on a payload of its own
VARIABLES
    tpc,       \* thread -> the statement of _payload_handler it is about to run
    tpayload,  \* thread -> the payload object the thread owns
    tinput,    \* thread -> that payload as it was when the call began
    ttok,      \* thread -> number of the uuid4 draw the call made, 0 if none yet
    tret,      \* thread -> value returned or exception raised, once done
    drawn,     \* uuid4 values drawn so far by all threads
    globals    \* module-level state of the process

\* The menu loop
VARIABLES
    mpc,      \* "prompt" while Menu.run loops, "exited" after sys.exit(0)
    mraw,     \* the line last typed at the menu prompt, as a sequence of characters
    mchoice,  \* the choice get_user_choice made of it
    mran,     \* names of the scenarios run so far, in order
    minputs,  \* lines read at the menu prompt
    mlines    \* lines read from the terminal in all

seqVars == <<heap, cur, last, ncalls, issued, traces, sent, failed>>
concVars == <<tpc, tpayload, tinput, ttok, tret, drawn, globals>>
menuVars == <<mpc, mraw, mchoice, mran, minputs, mlines>>
vars == <<seqVars, concVars, menuVars>>

\* Menu.run has just been entered
MenuInit ==
    /\ mpc = "prompt"
    /\ mraw = << >>
    /\ mchoice = -1
    /\ mran = << >>
    /\ minputs = 0
    /\ mlines = 0

\* The process after setup_rollbar: the handler is registered
InitialGlobals == Map("payload_handlers" :> List(<< Str("_payload_handler") >>))

\* No concurrent invocations
ConcIdle ==
    /\ tpc = << >> /\ tpayload = << >> /\ tinput = << >> /\ ttok = << >> /\ tret = << >>
    /\ drawn = 0
    /\ globals = InitialGlobals

\* No handler call on the current payload yet
NoCall == [arg |-> 0, pre |-> Null, ret |-> [kind |-> "none"], out |-> << >>, nth |-> 0, n |-> 0]

SeqInit ==
    /\ heap = << >>
    /\ cur = 0
    /\ last = NoCall
    /\ ncalls = 0
    /\ issued = 0
    /\ traces = << >>
    /\ sent = {}
    /\ failed = 0

Init == SeqInit /\ ConcIdle /\ MenuInit

\* A scenario reports an event: the client builds a fresh payload; the
\* previous event's payload has been forwarded or dropped and is gone.
Report ==
    /\ cur < MaxEvents
    /\ \E p \in Payloads :
        /\ heap' = ((cur + 1) :> p)
        /\ cur' = cur + 1
    /\ last' = NoCall
    /\ UNCHANGED <<ncalls, issued, traces, sent, failed>>
    /\ UNCHANGED <<concVars, menuVars>>

\* custom.trace_id of a payload, Absent when there is none
TraceIdOf(payload) == Get(Get(payload.m["data"], "custom", EmptyMap), "trace_id", Absent)

\* The hook is invoked on the current payload: by the client before
\* transmission, or again on its own previous output.  A payload the hook
\* returns is passed on for transmission.
Invoke ==
    /\ cur > 0
    /\ ncalls < MaxCalls
    /\ LET res == _payload_handler(heap, cur, issued + 1)
           pre == heap[cur]
           enriched == res.ret.kind = "payload"
       IN /\ heap' = res.heap
          /\ last' = [arg |-> cur, pre |-> pre, ret |-> res.ret, out |-> res.out,
                      nth |-> last.nth + 1, n |-> issued + 1]
          /\ issued' = IF enriched THEN issued + 1 ELSE issued
          /\ traces' = IF enriched
                       THEN Append(traces, [given |-> TraceIdOf(pre), trace |-> TraceIdOf(res.heap[res.ret.ref])])
                       ELSE traces
          /\ sent' = IF enriched
                     THEN sent \cup {Get(res.heap[res.ret.ref].m["data"], "level", Absent)}
                     ELSE sent
          /\ failed' = IF res.ret.kind = "raise" THEN failed + 1 ELSE failed
    /\ ncalls' = ncalls + 1
    /\ UNCHANGED cur
    /\ UNCHANGED <<concVars, menuVars>>

Next == Report \/ Invoke

Spec == Init /\ [][Next]_vars

----------------------------------------------------------------------------
\* Concurrent invocations of the handler (app/src/rollbar.py, statement by
\* statement)

NumThreads == 2
Threads == 1..NumThreads

\* The payloads handed to the concurrent invocations
ConcPayloads ==
    { BuildPayload(BuildData(Str("error"), Absent, Absent, EmptyMap)),
      BuildPayload(BuildData(Str("error"), Map("trace" :> Map("exception" :> Map("class" :> Str("ZeroDivisionError")))),
                             Map("payment_id" :> Str("pay_abc123")), Map("person" :> CallerPerson))),
      BuildPayload(BuildData(Str("error"), Absent, Map("trace_id" :> Str("caller_trace")), StaleFields)),
      BuildPayload(BuildData(Str("debug"), Absent, Absent, EmptyMap)),
      BuildPayload(BuildData(Absent, Absent, Absent, EmptyMap)) }

InitConc ==
    /\ SeqInit
    /\ tpc = [t \in Threads |-> "check"]
    /\ tinput \in [Threads -> ConcPayloads]
    /\ tpayload = tinput
    /\ ttok = [t \in Threads |-> 0]
    /\ tret = [t \in Threads |-> [kind |-> "none"]]
    /\ drawn = 0
    /\ globals = InitialGlobals
    /\ MenuInit

TData(t) == tpayload[t].m["data"]

\* Thread t moves to statement pc with payload["data"] = data
Advance(t, pc, data) ==
    /\ tpc' = [tpc EXCEPT ![t] = pc]
    /\ tpayload' = [tpayload EXCEPT ![t] = Put(tpayload[t], "data", data)]

\* Thread t ends its call with ret
Finish(t, ret) ==
    /\ tpc' = [tpc EXCEPT ![t] = "done"]
    /\ tret' = [tret EXCEPT ![t] = ret]

\* Lines 69-71
TCheck(t) ==
    /\ tpc[t] = "check"
    /\ IF ~HasKey(tpayload[t], "data") \/ ~HasKey(TData(t), "level")
       THEN Finish(t, MissingKey(tpayload, t).ret)
       ELSE IF Vetoed(TData(t))
       THEN Finish(t, Veto(tpayload, t).ret)
       ELSE tpc' = [tpc EXCEPT ![t] = "diag"] /\ tret' = tret
    /\ UNCHANGED <<tpayload, tinput, ttok, drawn, globals, seqVars, menuVars>>

\* Lines 73-79
TDiag(t) ==
    /\ tpc[t] = "diag"
    /\ IF Diagnostics(TData(t)).raise # ""
       THEN Finish(t, Raised(Diagnostics(TData(t)).raise))
       ELSE tpc' = [tpc EXCEPT ![t] = "person"] /\ tret' = tret
    /\ UNCHANGED <<tpayload, tinput, ttok, drawn, globals, seqVars, menuVars>>

\* Line 83
TPerson(t) ==
    /\ tpc[t] = "person"
    /\ Advance(t, "custom", SetPerson(TData(t)))
    /\ UNCHANGED <<tinput, ttok, tret, drawn, globals, seqVars, menuVars>>

CustomStep_module_cache(data, g, n) ==
    [data |-> Put(data, "custom", Merge(Get(g, "_custom", _get_custom_data(n)), Get(data, "custom", EmptyMap))),
     g |-> IF HasKey(g, "_custom") THEN g ELSE Put(g, "_custom", _get_custom_data(n))]

\* Lines 86-89 in a process whose module-level state is g: data afterwards,
\* and the module-level state afterwards
CustomStep(data, g, n) == [data |-> SetCustom(data, n), g |-> g]

\* Lines 86-89; uuid4 is drawn from the operating system's random source,
\* one value per draw whatever the interleaving
TCustom(t) ==
    /\ tpc[t] = "custom"
    /\ drawn' = drawn + 1
    /\ ttok' = [ttok EXCEPT ![t] = drawn + 1]
    /\ Advance(t, "foo_key", CustomStep(TData(t), globals, drawn + 1).data)
    /\ globals' = CustomStep(TData(t), globals, drawn + 1).g
    /\ UNCHANGED <<tinput, tret, seqVars, menuVars>>

\* Lines 90-98
TFooKey(t) ==
    /\ tpc[t] = "foo_key"
    /\ Advance(t, "empty_value", SetFooKey(TData(t)))
    /\ UNCHANGED <<tinput, ttok, tret, drawn, globals, seqVars, menuVars>>

\* Line 99
TEmptyValue(t) ==
    /\ tpc[t] = "empty_value"
    /\ Advance(t, "base_model_custom", SetEmptyValue(TData(t)))
    /\ UNCHANGED <<tinput, ttok, tret, drawn, globals, seqVars, menuVars>>

\* Lines 100-107
TBaseModelCustom(t) ==
    /\ tpc[t] = "base_model_custom"
    /\ Advance(t, "framework", SetBaseModelCustom(TData(t)))
    /\ UNCHANGED <<tinput, ttok, tret, drawn, globals, seqVars, menuVars>>

\* Line 109
TFramework(t) ==
    /\ tpc[t] = "framework"
    /\ Advance(t, "return", SetFramework(TData(t)))
    /\ UNCHANGED <<tinput, ttok, tret, drawn, globals, seqVars, menuVars>>

\* Line 111
TReturn(t) ==
    /\ tpc[t] = "return"
    /\ Finish(t, RetPayload(t))
    /\ UNCHANGED <<tpayload, tinput, ttok, drawn, globals, seqVars, menuVars>>

NextConc ==
    \E t \in Threads :
        \/ TCheck(t) \/ TDiag(t) \/ TPerson(t) \/ TCustom(t) \/ TFooKey(t)
        \/ TEmptyValue(t) \/ TBaseModelCustom(t) \/ TFramework(t) \/ TReturn(t)

SpecConc == InitConc /\ [][NextConc]_vars

----------------------------------------------------------------------------
\* The menu loop (app/src/menu.py)

MaxInputs == 3   \* lines typed at the menu prompt in one run

\* ALL_SCENARIOS in display order, by the name each scenario displays
ALL_SCENARIOS ==
    << "Person Tracking", "Custom Data", "Error Levels", "Exception vs Message",
       "Searchable Fields", "Multiple Errors", "Exception Types", "Business Events" >>

Whitespace == {" ", "\t"}
Digits == << "0", "1", "2", "3", "4", "5", "6", "7", "8", "9" >>
IsDigit(c) == \E i \in DOMAIN Digits : Digits[i] = c
DigitValue(c) == (CHOOSE i \in DOMAIN Digits : Digits[i] = c) - 1

\* str.strip(): leading and trailing whitespace removed
RECURSIVE LStrip(_)
LStrip(s) == IF s # << >> /\ Head(s) \in Whitespace THEN LStrip(Tail(s)) ELSE s
RECURSIVE RStrip(_)
RStrip(s) == IF s # << >> /\ s[Len(s)] \in Whitespace THEN RStrip(SubSeq(s, 1, Len(s) - 1)) ELSE s
Strip(s) == RStrip(LStrip(s))

\* int(s) of a stripped string: an optional sign, then one or more digits
Unsigned(s) == IF s # << >> /\ Head(s) \in {"+", "-"} THEN Tail(s) ELSE s
IsIntLiteral(s) == Unsigned(s) # << >> /\ \A i \in DOMAIN Unsigned(s) : IsDigit(Unsigned(s)[i])
RECURSIVE Decimal(_)
Decimal(ds) == IF ds = << >> THEN 0 ELSE 10 * Decimal(SubSeq(ds, 1, Len(ds) - 1)) + DigitValue(ds[Len(ds)])
IntOf(s) == IF Head(s) = "-" THEN 0 - Decimal(Unsigned(s)) ELSE Decimal(Unsigned(s))

\* Menu.get_user_choice on the line raw: int(raw.strip()), -1 on ValueError
get_user_choice(raw) == IF IsIntLiteral(Strip(raw)) THEN IntOf(Strip(raw)) ELSE -1

\* scenarios[i] of a Python list
PyIndex(list, i) == list[i + 1]

handle_choice_nonpositive_exits(scenarios, choice) ==
    IF choice <= 0 THEN [continue |-> FALSE, ran |-> << >>, lines |-> 0]
    ELSE IF 1 <= choice /\ choice <= Len(scenarios)
    THEN [continue |-> TRUE, ran |-> << PyIndex(scenarios, choice - 1) >>, lines |-> 1]
    ELSE [continue |-> TRUE, ran |-> << >>, lines |-> 1]

\* Menu.handle_choice: whether to continue, the scenarios run, and the
\* lines read while handling (wait_for_user of the scenario, or the
\* "Press Enter" after an invalid choice)
handle_choice(scenarios, choice) ==
    IF choice = 0 THEN [continue |-> FALSE, ran |-> << >>, lines |-> 0]
    ELSE IF 1 <= choice /\ choice <= Len(scenarios)
    THEN [continue |-> TRUE, ran |-> << PyIndex(scenarios, choice - 1) >>, lines |-> 1]
    ELSE [continue |-> TRUE, ran |-> << >>, lines |-> 1]

\* Lines typed at the prompt that int() accepts after strip()
NumericInputs ==
    { <<"0">>, <<"1">>, <<"3">>, <<"8">>, <<"9">>, <<"1", "0">>, <<"-", "1">>, <<"-", "3">>,
      <<" ", "2", " ">>, <<"+", "4">>, <<"0", "0">>, <<"0", "7">> }

\* Lines typed at the prompt for which int() raises ValueError
NonNumericInputs ==
    { << >>, <<" ">>, <<"q">>, <<"a", "b", "c">>, <<"1", ".", "5">>, <<"1", " ", "2">>, <<"-">>, <<"3", "x">> }

RawInputs == NumericInputs \cup NonNumericInputs

InitMenu == SeqInit /\ ConcIdle /\ MenuInit

\* One turn of the loop of Menu.run: read a line, handle the choice, and
\* leave the process when handle_choice says not to continue
MenuIteration ==
    /\ mpc = "prompt"
    /\ minputs < MaxInputs
    /\ \E raw \in RawInputs :
        LET choice == get_user_choice(raw)
            res == handle_choice(ALL_SCENARIOS, choice)
        IN /\ mraw' = raw
           /\ mchoice' = choice
           /\ mran' = mran \o res.ran
           /\ mlines' = mlines + 1 + res.lines
           /\ mpc' = IF res.continue THEN "prompt" ELSE "exited"
    /\ minputs' = minputs + 1
    /\ UNCHANGED <<seqVars, concVars>>

NextMenu == MenuIteration

SpecMenu == InitMenu /\ [][NextMenu]_vars

----------------------------------------------------------------------------
\* Properties

\* The handler has been called on the current payload
Called == last.ret.kind # "none"
\* payload["data"] before and after the last call
PreData == last.pre.m["data"]
PostData == heap[last.arg].m["data"]
\* The last call was given a payload with data.level
PreHasLevel == Called /\ HasKey(last.pre, "data") /\ HasKey(PreData, "level")
\* The last call was given an error-level payload
PreIsError == PreHasLevel /\ PreData.m["level"] = Str("error")
\* The last call was given a payload of another level
PreIsOther == PreHasLevel /\ PreData.m["level"] # Str("error")

\* C1: a call on a payload whose data.level is not "error" returns exactly
\* False, and every payload passed on for transmission has level "error".
C1_VetoOtherLevels ==
    /\ PreIsOther => last.ret = RetFalse
    /\ \A level \in sent : level = Str("error")

\* An error event was passed on and a critical event was then vetoed
C1_Witness ==
    /\ PreIsOther /\ PreData.m["level"] = Str("critical") /\ last.ret = RetFalse
    /\ sent = {Str("error")}

\* C2: after a vetoing call the payload object holds exactly what it held
\* before the call, at every key of the payload and of payload.data.
C2_VetoLeavesPayload ==
    PreIsOther => /\ DOMAIN heap = {last.arg}
                  /\ heap[last.arg] = last.pre

\* A payload with body, custom and person was vetoed
C2_Witness ==
    /\ PreIsOther /\ last.ret = RetFalse
    /\ {"body", "custom", "person"} \subseteq DOMAIN PreData.m
    /\ heap[last.arg] = last.pre

\* C3: a call on an error-level payload returns the reference it was given,
\* the object behind it carries the enrichment, and no other object exists.
C3_ReturnsSameObject ==
    PreIsError => /\ last.ret = RetPayload(last.arg)
                  /\ DOMAIN heap = {last.arg}
                  /\ HasKey(PostData, "framework")

\* An error-level payload without framework came back as the same object, enriched
C3_Witness ==
    /\ PreIsError /\ ~HasKey(PreData, "framework")
    /\ last.ret = RetPayload(last.arg) /\ HasKey(PostData, "framework")

\* The values the handler is to write, spelled out
ExpectedPerson == Map([id |-> Str("1234"), tenant |-> Str("tenant_name")])
ExpectedFlags == List(<<Str("feature_1"), Str("feature_2")>>)
ExpectedFooKey ==
    Map([bar_key |-> Str("bar_value"),
         baz_key |-> List(<<Num(1), Num(2), Num(3)>>),
         deep |-> Map([nested |-> Map([structure |-> Bool(TRUE)])])])
ExpectedBaseModelCustom ==
    Map([the_model |-> Map([foo |-> Str("foo_value"), bar |-> Map([key1 |-> Num(10), key2 |-> Num(20)])])])
OverwrittenKeys == {"person", "foo_key", "empty_value", "base_model_custom", "framework"}

\* C4 as claimed: after a call on an error-level payload data.person.id is
\* "1234" and data.custom has a trace_id, and the trace_id values written by
\* any two invocations differ.
C4_TraceIdAlwaysDiffers ==
    /\ PreIsError => /\ last.ret.kind = "payload"
                     /\ HasKey(PostData, "person") /\ Get(PostData.m["person"], "id", Absent) = Str("1234")
                     /\ HasKey(Get(PostData, "custom", EmptyMap), "trace_id")
    /\ \A i, j \in DOMAIN traces : i < j => traces[i].trace # traces[j].trace

\* C4 amended: after a call on an error-level payload data.person.id is
\* "1234" and data.custom has a trace_id; a trace_id the incoming custom
\* already held is kept, and the trace_id values written by two invocations
\* whose incoming custom held none differ.
C4_FreshTraceIdsDiffer ==
    /\ PreIsError => /\ last.ret.kind = "payload"
                     /\ HasKey(PostData, "person") /\ Get(PostData.m["person"], "id", Absent) = Str("1234")
                     /\ HasKey(Get(PostData, "custom", EmptyMap), "trace_id")
    /\ \A i \in DOMAIN traces : traces[i].given # Absent => traces[i].trace = traces[i].given
    /\ \A i, j \in DOMAIN traces :
          (i < j /\ traces[i].given = Absent /\ traces[j].given = Absent) => traces[i].trace # traces[j].trace

\* Two error events without a trace_id of their own were enriched
C4_Witness ==
    /\ PreIsError /\ last.ret.kind = "payload"
    /\ Len(traces) = 2 /\ traces[1].given = Absent /\ traces[2].given = Absent
    /\ traces[1].trace # traces[2].trace

\* C5: after a call on an error-level payload every key of the incoming
\* data.custom is in data.custom with the incoming value, trace_id and
\* feature_flags included; the handler's own trace_id and feature_flags
\* appear only where the incoming custom had no such key, and no other key
\* appears.
C5_CallerCustomWins ==
    PreIsError =>
        /\ last.ret.kind = "payload"
        /\ HasKey(PostData, "custom")
        /\ LET caller == Get(PreData, "custom", EmptyMap)
               custom == PostData.m["custom"]
           IN /\ \A k \in DOMAIN caller.m : HasKey(custom, k) /\ custom.m[k] = caller.m[k]
              /\ DOMAIN custom.m = (DOMAIN caller.m) \cup {"trace_id", "feature_flags"}
              /\ ~HasKey(caller, "trace_id") => custom.m["trace_id"] = UuidHex(last.n)
              /\ ~HasKey(caller, "feature_flags") => custom.m["feature_flags"] = ExpectedFlags

\* The incoming custom held both default keys and one of its own
C5_Witness ==
    /\ PreIsError /\ last.ret.kind = "payload" /\ last.nth = 1
    /\ HasKey(PreData, "custom")
    /\ {"trace_id", "feature_flags", "payment_id"} \subseteq DOMAIN PreData.m["custom"].m
    /\ PostData.m["custom"] = PreData.m["custom"]

\* C6: a second or later call on the same error-level payload does not
\* raise, and leaves person, foo_key, empty_value, base_model_custom and
\* framework equal to what the call before it wrote.
C6_ReinvokeKeepsOverwrittenFields ==
    (PreIsError /\ last.nth >= 2) =>
        /\ last.ret.kind = "payload"
        /\ \A k \in OverwrittenKeys :
              HasKey(PreData, k) /\ HasKey(PostData, k) /\ PostData.m[k] = PreData.m[k]

\* The handler ran twice on one error-level payload
C6_Witness ==
    /\ PreIsError /\ last.nth = 2 /\ last.ret = RetPayload(last.arg)
    /\ PostData.m["framework"] = PreData.m["framework"]

\* C7: after a call on an error-level payload data.framework is
\* "oreore_framework 1.0", data.empty_value is None and data.foo_key is the
\* literal nested mapping, whatever those keys held before.
C7_LiteralFieldsOverwritten ==
    PreIsError =>
        /\ last.ret.kind = "payload"
        /\ {"framework", "empty_value", "foo_key"} \subseteq DOMAIN PostData.m
        /\ PostData.m["framework"] = Str("oreore_framework 1.0")
        /\ PostData.m["empty_value"] = Null
        /\ PostData.m["foo_key"] = ExpectedFooKey

\* The payload held other values at those keys before its first call
C7_Witness ==
    /\ PreIsError /\ last.nth = 1 /\ last.ret.kind = "payload"
    /\ {"framework", "empty_value", "foo_key"} \subseteq DOMAIN PreData.m
    /\ PreData.m["framework"] = Str("flask 3.0") /\ PreData.m["empty_value"] = Num(5)
    /\ PreData.m["foo_key"] = Str("caller_foo")
    /\ PostData.m["foo_key"] = ExpectedFooKey

\* C8: after a call on an error-level payload data.person is exactly
\* {id: "1234", tenant: "tenant_name"}, also when the caller attached a
\* person of its own.
C8_PersonOverwritten ==
    PreIsError =>
        /\ last.ret.kind = "payload"
        /\ HasKey(PostData, "person")
        /\ PostData.m["person"] = ExpectedPerson

\* The caller's person user_123 was replaced
C8_Witness ==
    /\ PreIsError /\ last.nth = 1 /\ last.ret.kind = "payload"
    /\ HasKey(PreData, "person") /\ PreData.m["person"].m["id"] = Str("user_123")
    /\ PostData.m["person"] = ExpectedPerson

\* No msgspec.Struct instance anywhere in v
RECURSIVE IsPlain(_)
IsPlain(v) ==
    CASE v.t = "struct" -> FALSE
      [] v.t = "map" -> \A k \in DOMAIN v.m : IsPlain(v.m[k])
      [] v.t = "list" -> \A i \in DOMAIN v.l : IsPlain(v.l[i])
      [] OTHER -> v.t \in {"str", "int", "bool", "null"}

\* C9: after a call on an error-level payload data.base_model_custom is
\* {the_model: {foo: "foo_value", bar: {key1: 10, key2: 20}}} made of dicts,
\* lists and scalars only.
C9_BaseModelCustomPlain ==
    PreIsError =>
        /\ last.ret.kind = "payload"
        /\ HasKey(PostData, "base_model_custom")
        /\ IsPlain(PostData.m["base_model_custom"])
        /\ PostData.m["base_model_custom"] = ExpectedBaseModelCustom

\* The record was embedded into a payload that had no base_model_custom
C9_Witness ==
    /\ PreIsError /\ last.ret.kind = "payload" /\ ~HasKey(PreData, "base_model_custom")
    /\ PostData.m["base_model_custom"].m["the_model"].m["bar"].m["key2"] = Num(20)

\* data.body.trace.exception of the payload given to the last call, {} where
\* any part of the path is missing
PreException == Get(Get(Get(PreData, "body", EmptyMap), "trace", EmptyMap), "exception", EmptyMap)
FullExceptionBody ==
    Map([trace |-> Map([exception |-> Map([class |-> Str("ZeroDivisionError"), message |-> Str("division by zero")])])])

\* C10: a call on an error-level payload whose body, trace or exception is
\* missing or empty, or whose exception lacks class or message, does not
\* raise; a missing class or message is printed as the empty string; body
\* is left alone and every other key of data ends as it would with a full
\* exception.
C10_PartialExceptionTolerated ==
    PreIsError =>
        /\ last.ret.kind = "payload"
        /\ IF DOMAIN PreException.m = {}
           THEN last.out = << >>
           ELSE /\ Len(last.out) = 3
                /\ last.out[2].v = (IF HasKey(PreException, "class") THEN PreException.m["class"] ELSE Str(""))
                /\ last.out[3].v = (IF HasKey(PreException, "message") THEN PreException.m["message"] ELSE Str(""))
        /\ Get(PostData, "body", Absent) = Get(PreData, "body", Absent)
        /\ Without(PostData, {"body"}) = Without(Enrich(Put(PreData, "body", FullExceptionBody), last.n), {"body"})

\* An exception with neither class nor message was printed with empty strings
C10_Witness ==
    /\ PreIsError /\ last.ret.kind = "payload"
    /\ DOMAIN PreException.m = {"description"}
    /\ Len(last.out) = 3 /\ last.out[2].v = Str("") /\ last.out[3].v = Str("")

\* A payload without body was enriched
C10_WitnessNoBody ==
    /\ PreIsError /\ last.ret.kind = "payload" /\ ~HasKey(PreData, "body")
    /\ last.out = << >> /\ HasKey(PostData, "framework")

\* The elements of a list value
Elements(v) == {v.l[i] : i \in DOMAIN v.l}
IsNested(v) == v.t \in {"list", "map"}

\* C12: after a call on an error-level payload whose incoming custom has
\* feature_flags, data.custom.feature_flags is the incoming value as a
\* whole: of feature_1 and feature_2 only those the incoming value holds
\* remain, and every nested incoming value is in custom as it came in.
C12_ShallowMerge ==
    (PreIsError /\ HasKey(Get(PreData, "custom", EmptyMap), "feature_flags")) =>
        /\ last.ret.kind = "payload"
        /\ HasKey(PostData, "custom")
        /\ LET caller == PreData.m["custom"]
               custom == PostData.m["custom"]
           IN /\ HasKey(custom, "feature_flags")
              /\ custom.m["feature_flags"].t = caller.m["feature_flags"].t
              /\ custom.m["feature_flags"] = caller.m["feature_flags"]
              /\ custom.m["feature_flags"].t = "list" =>
                    \A flag \in Elements(ExpectedFlags) :
                        flag \in Elements(custom.m["feature_flags"]) => flag \in Elements(caller.m["feature_flags"])
              /\ \A k \in DOMAIN caller.m : IsNested(caller.m[k]) => custom.m[k] = caller.m[k]

\* The incoming feature_flags held feature_2 but not feature_1, on a first call
C12_Witness ==
    /\ PreIsError /\ last.nth = 1 /\ last.ret.kind = "payload"
    /\ HasKey(PreData, "custom") /\ HasKey(PreData.m["custom"], "feature_flags")
    /\ PreData.m["custom"].m["feature_flags"] = List(<<Str("feature_2"), Str("caller_flag")>>)
    /\ Str("feature_1") \notin Elements(PostData.m["custom"].m["feature_flags"])

\* The incoming feature_flags was a dict, on a first call
C12_WitnessDict ==
    /\ PreIsError /\ last.nth = 1 /\ last.ret.kind = "payload"
    /\ HasKey(PreData, "custom") /\ HasKey(PreData.m["custom"], "feature_flags")
    /\ PreData.m["custom"].m["feature_flags"].t = "map"
    /\ PostData.m["custom"].m["feature_flags"] = Map([feature_1 |-> Bool(FALSE)])

\* The last call was given a payload without data or without data.level
PreLacksLevel == Called /\ ~(HasKey(last.pre, "data") /\ HasKey(last.pre.m["data"], "level"))

\* C13: a call on a payload without data or without data.level raises
\* instead of returning, and leaves the payload as it was; a call made after
\* such a failure on a payload with a level returns False for another level
\* and the enriched payload for level "error".
C13_MissingLevelRaises ==
    /\ PreLacksLevel => /\ last.ret.kind = "raise"
                        /\ DOMAIN heap = {last.arg}
                        /\ heap[last.arg] = last.pre
    /\ (failed > 0 /\ PreIsOther) => last.ret = RetFalse /\ heap[last.arg] = last.pre
    /\ (failed > 0 /\ PreIsError) =>
          /\ last.ret = RetPayload(last.arg)
          /\ PostData.m["person"] = ExpectedPerson
          /\ PostData.m["framework"] = Str("oreore_framework 1.0")
          /\ PostData.m["foo_key"] = ExpectedFooKey
          /\ PostData.m["empty_value"] = Null
          /\ PostData.m["base_model_custom"] = ExpectedBaseModelCustom
          /\ HasKey(PostData.m["custom"], "trace_id")

\* A payload without level made the handler raise
C13_Witness ==
    /\ PreLacksLevel /\ HasKey(last.pre, "data") /\ last.ret = Raised("KeyError")
    /\ heap[last.arg] = last.pre

\* A payload without data made the handler raise, and the next event, of
\* level error, was enriched
C13_WitnessLater ==
    /\ failed = 1 /\ cur = 2 /\ PreIsError /\ last.ret = RetPayload(last.arg)
    /\ PostData.m["framework"] = Str("oreore_framework 1.0")

\* The keys of payload.data the handler assigns
AssignedKeys == OverwrittenKeys \cup {"custom"}

\* C14: a call on an error-level payload leaves every key of data other than
\* person, custom, foo_key, empty_value, base_model_custom and framework,
\* data.level and data.body among them, and every top-level key of the
\* payload other than data, with the value it had.
C14_OnlyAssignedKeysChange ==
    PreIsError =>
        /\ last.ret.kind = "payload"
        /\ DOMAIN heap[last.arg].m = DOMAIN last.pre.m
        /\ \A k \in (DOMAIN last.pre.m) \ {"data"} : heap[last.arg].m[k] = last.pre.m[k]
        /\ (DOMAIN PreData.m) \ AssignedKeys = (DOMAIN PostData.m) \ AssignedKeys
        /\ \A k \in (DOMAIN PreData.m) \ AssignedKeys : PostData.m[k] = PreData.m[k]
        /\ PostData.m["level"] = Str("error")
        /\ Get(PostData, "body", Absent) = Get(PreData, "body", Absent)

\* A payload with access_token, body and context was enriched on its first call
C14_Witness ==
    /\ PreIsError /\ last.nth = 1 /\ last.ret.kind = "payload"
    /\ HasKey(last.pre, "access_token") /\ {"body", "context"} \subseteq DOMAIN PreData.m
    /\ PostData.m["context"] = Str("checkout#payment")
    /\ heap[last.arg].m["access_token"] = Str("token")
    /\ PostData # PreData

\* C15: a second or later call on the same error-level payload leaves
\* data.custom as the call before it left it; the trace_id is the one
\* already there, not the one drawn by this call.
C15_CustomFixedPoint ==
    (PreIsError /\ last.nth >= 2) =>
        /\ last.ret.kind = "payload"
        /\ HasKey(PreData, "custom") /\ HasKey(PostData, "custom")
        /\ PostData.m["custom"] = PreData.m["custom"]
        /\ PostData.m["custom"].m["trace_id"] = PreData.m["custom"].m["trace_id"]
        /\ PostData.m["custom"].m["trace_id"] # UuidHex(last.n)

\* The second call kept the trace_id the first call had drawn
C15_Witness ==
    /\ PreIsError /\ last.nth = 2 /\ last.n = 2 /\ last.ret.kind = "payload"
    /\ PostData.m["custom"].m["trace_id"] = UuidHex(1)

\* The call of thread t run alone on its payload, with the uuid4 draw the
\* thread made
Alone(t) == _payload_handler((t :> tinput[t]), t, ttok[t])

\* C11: whatever the interleaving of the statements of concurrent calls on
\* payloads of their own, a payload is untouched until its call begins, a
\* finished call has returned what it returns when run alone and left its
\* payload as it leaves it when run alone (with the trace_id of its own
\* draw), two calls never write the same drawn trace_id, and the
\* module-level state is never written.
C11_NoInterference ==
    /\ globals = InitialGlobals
    /\ \A t \in DOMAIN tpc :
          /\ tpc[t] = "check" => tpayload[t] = tinput[t]
          /\ tpc[t] = "done" => /\ tret[t] = Alone(t).ret
                                /\ tpayload[t] = Alone(t).heap[t]
    /\ \A t, u \in DOMAIN tpc : (t # u /\ ttok[t] # 0) => ttok[t] # ttok[u]

\* Thread 2 drew its uuid4 first and is still at a later statement when
\* thread 1, which drew second, has returned its enriched payload
C11_Witness ==
    /\ DOMAIN tpc = Threads
    /\ tpc[1] = "done" /\ tret[1] = RetPayload(1) /\ ttok[1] = 2
    /\ tpc[2] = "empty_value" /\ ttok[2] = 1
    /\ tpayload[1].m["data"].m["custom"].m["trace_id"] = UuidHex(2)
    /\ tpayload[2].m["data"].m["custom"].m["trace_id"] = UuidHex(1)
    /\ tpayload[1] = Alone(1).heap[1]

\* What one turn of the menu loop does, by the choice made
MenuTurn ==
    /\ minputs' = minputs + 1
    /\ mpc = "prompt"
    /\ CASE mchoice' = 0 -> mpc' = "exited" /\ mran' = mran
         [] mchoice' \in 1..8 -> mpc' = "prompt" /\ mran' = Append(mran, ALL_SCENARIOS[mchoice'])
         [] OTHER -> mpc' = "prompt" /\ mran' = mran

====
